---------------------------- MODULE Spec2Model ----------------------------
(***************************************************************************)
(* Rectangle packing / cutting-stock engines of the repository.            *)
(*                                                                         *)
(*   Genetic_Algorithm.py        Sheet.add_part, find_best_fit,            *)
(*                               optimize_cutting_heuristic,               *)
(*                               genetic_heuristic_optimization            *)
(*   Glass_Cut_list_optimizer.py expand_parts, calculate_layout            *)
(*   GlassCuttingIO.py           GlassCuttingOptimizer.optimize            *)
(*   HybridGlassCuttingOptimizer.py  HybridGlassCuttingOptimizer.optimize  *)
(*   bin-packing-handler.py      BinPacker.pack                            *)
(*   2D_Bin_Packeging.py         group_sheets_by_layout                    *)
(*                                                                         *)
(* Part objects live in a heap (a sequence of records); lists of parts are *)
(* sequences of heap indices, so that two lists made by list.copy() share  *)
(* the Part objects exactly as the Python lists do.  Sheet objects are     *)
(* kept in a second heap once they are appended to a layout.               *)
(***************************************************************************)
EXTENDS Integers, Sequences, FiniteSets, TLC

(***************************************************************************)
(* Bounds of the model.                                                    *)
(***************************************************************************)
MaxDim == 3        \* part length and height range over 1..MaxDim
MaxDemand == 3     \* total required quantity over the whole part list
MaxSheets == 4     \* sheets recorded per run; see AppendSheet
MaxPop == 2        \* population_size ranges over 1..MaxPop
MaxGen == 2        \* generations ranges over 0..MaxGen

\* stock_sizes lists offered to the Genetic_Algorithm.py engine
StockLists == { << <<4, 4>> >>, << <<2, 3>>, <<4, 4>> >> }

VARIABLES
    \* ---- Genetic_Algorithm.py ----
    input,            \* the Part list as loaded (never changes)
    heap,             \* the Part objects; heap[i].quantity is mutated by the engine
    stock_sizes,      \* list of (length, width)
    caller_parts,     \* the caller's list object: indices into heap
    parts,            \* optimize_cutting_heuristic: its `parts` list
    snapshot,         \* parts[:] iterated by the for loop of line 137
    idx,              \* position in snapshot
    iter,             \* iterations left of `for _ in range(part.quantity)`
    sheet,            \* the Sheet being filled
    sheets,           \* optimize_cutting_heuristic: its `sheets` list (sheet ids)
    sheet_heap,       \* the Sheet objects appended to some layout
    returned,         \* the layouts returned so far, one per finished call
    copied,           \* TRUE when the running call was given parts.copy()
    pc,               \* control position
    \* ---- genetic_heuristic_optimization ----
    population_size,
    generations,
    population,       \* list of layouts; a layout is a list of sheet ids
    generation,       \* the loop variable of line 108
    best_fitness,     \* line 110, as the fraction <<used_area, total_sheet_area>>
    next_generation,
    result,           \* the layout returned at line 129
    \* ---- Glass_Cut_list_optimizer.py ----
    glass_parts,      \* rows of load_glass_data: location, length, height, qty
    cl_stock_sizes,   \* rows of load_stock_sizes: length, width, qty
    gap,
    cl_parts,         \* calculate_layout: its `parts` argument (expanded, sorted)
    remaining_parts,
    cl_sheets,        \* calculate_layout: its `sheets` list
    stock_idx,        \* position of the for loop of line 42
    best_utilization, \* as the fraction <<numerator, denominator>>
    best_sheet,       \* <<>> for None, else <<sheet>>
    cl_pc,
    \* ---- GlassCuttingIO.py: GlassCuttingOptimizer.optimize ----
    gc_stocks,        \* self.stocks: Stock(length, width, quantity)
    cut_width,        \* self.cut_width
    panels,           \* the Panel list handed to optimize
    sorted_panels,    \* (length, height, location) per instance, sorted (line 88)
    panel_idx,        \* position of the for loop of line 95
    current_stock_idx, \* 0-based, as in the code
    current_sheet,
    cur_x,            \* x of line 92
    cur_y,            \* y of line 92
    max_height,
    sheets_used,      \* dict of line 79, keyed by the size <<length, width>>
    total_panel_area,
    gc_total_sheet_area, \* total_sheet_area of line 81
    all_placements,
    gc_result,        \* <<>> until line 152 returns, then <<OptimizationResult>>
    gc_raised,        \* "" or the name of the exception that ended the call
    gc_pc,
    \* ---- HybridGlassCuttingOptimizer.py ----
    stock_sheets,     \* StockSheet(length, width) objects, one per sheet
    glass_pieces,     \* GlassPiece(location, length, height, qty) objects
    hy_remaining,     \* optimize: remaining_pieces, indices into glass_pieces
    hy_idx,           \* position of the for loop of line 36
    sheet_utilization,
    hy_pc,
    \* ---- bin-packing-handler.py: BinPacker ----
    bp_parts,         \* self.parts (sorted by __init__)
    bp_stock_sizes,   \* self.stock_sizes: StockSize(name, width, height, quantity)
    bp_idx,           \* position of the for loop of line 99
    current_x,
    current_y,
    max_height_in_row,
    bp_remaining,     \* pack: remaining_parts
    stock_used,
    results,          \* self.results
    bp_pc,
    \* ---- 2D_Bin_Packeging.py: group_sheets_by_layout ----
    optimized_layout, \* list of sheets; a sheet is its list of placements
    gr_idx,           \* position of the for loop of line 103
    sheet_groups,     \* the dict of line 101 in insertion order
    gr_pc

gaVars == <<input, heap, stock_sizes, caller_parts, parts, snapshot, idx, iter,
            sheet, sheets, sheet_heap, returned, copied, pc>>

gaVars_but_pc == <<input, heap, stock_sizes, caller_parts, parts, snapshot, idx, iter,
                   sheet, sheets, sheet_heap, returned, copied>>

genVars == <<population_size, generations, population, generation, best_fitness,
             next_generation, result>>

clVars == <<glass_parts, cl_stock_sizes, gap, cl_parts, remaining_parts, cl_sheets,
            stock_idx, best_utilization, best_sheet, cl_pc>>

gcVars == <<gc_stocks, cut_width, panels, sorted_panels, panel_idx, current_stock_idx,
            current_sheet, cur_x, cur_y, max_height, sheets_used, total_panel_area,
            gc_total_sheet_area, all_placements, gc_result, gc_raised, gc_pc>>

hyVars == <<stock_sheets, glass_pieces, hy_remaining, hy_idx, sheet_utilization, hy_pc>>

bpVars == <<bp_parts, bp_stock_sizes, bp_idx, current_x, current_y, max_height_in_row,
            bp_remaining, stock_used, results, bp_pc>>

grVars == <<optimized_layout, gr_idx, sheet_groups, gr_pc>>

\* the state of the four programs above, which the engines of
\* Genetic_Algorithm.py and Glass_Cut_list_optimizer.py never touch
otherVars == <<gcVars, hyVars, bpVars, grVars>>

vars == <<gaVars, genVars, clVars, otherVars>>

\* GlassCuttingOptimizer not constructed
IdleGC ==
    /\ gc_stocks = <<>>
    /\ cut_width = 0
    /\ panels = <<>>
    /\ sorted_panels = <<>>
    /\ panel_idx = 0
    /\ current_stock_idx = 0
    /\ current_sheet = 0
    /\ cur_x = 0
    /\ cur_y = 0
    /\ max_height = 0
    /\ sheets_used = <<>>
    /\ total_panel_area = 0
    /\ gc_total_sheet_area = 0
    /\ all_placements = <<>>
    /\ gc_result = <<>>
    /\ gc_raised = ""
    /\ gc_pc = "idle"

\* HybridGlassCuttingOptimizer not constructed
IdleHY ==
    /\ stock_sheets = <<>>
    /\ glass_pieces = <<>>
    /\ hy_remaining = <<>>
    /\ hy_idx = 0
    /\ sheet_utilization = <<>>
    /\ hy_pc = "idle"

\* BinPacker not constructed
IdleBP ==
    /\ bp_parts = <<>>
    /\ bp_stock_sizes = <<>>
    /\ bp_idx = 0
    /\ current_x = 0
    /\ current_y = 0
    /\ max_height_in_row = 0
    /\ bp_remaining = <<>>
    /\ stock_used = 0
    /\ results = <<>>
    /\ bp_pc = "idle"

\* group_sheets_by_layout not called
IdleGR ==
    /\ optimized_layout = <<>>
    /\ gr_idx = 0
    /\ sheet_groups = <<>>
    /\ gr_pc = "idle"


(***************************************************************************)
(* Helpers.                                                                *)
(***************************************************************************)
Min(a, b) == IF a < b THEN a ELSE b
Max(a, b) == IF a > b THEN a ELSE b

RECURSIVE SumSeq(_)
SumSeq(s) == IF s = <<>> THEN 0 ELSE Head(s) + SumSeq(Tail(s))

NoSheet == [length |-> 0, width |-> 0, placements |-> <<>>, remaining_space |-> <<>>]

(***************************************************************************)
(* class Sheet                                                             *)
(***************************************************************************)
\* Sheet.__init__
NewSheet(length, width) ==
    [length |-> length, width |-> width, placements |-> <<>>,
     remaining_space |-> << <<0, 0, length, width>> >>]

\* the body of add_part's loop for one free space: the entries it appends
\* to new_remaining
SplitSpace(space, x, y, actual_length, actual_height) ==
    LET sx == space[1]
        sy == space[2]
        sl == space[3]
        sh == space[4]
    IN  IF x < sx + sl /\ y < sy + sh
        THEN (IF y > sy THEN << <<sx, sy, sl, y - sy>> >> ELSE <<>>)
             \o (IF y + actual_height < sy + sh
                 THEN << <<sx, y + actual_height, sl, sy + sh - (y + actual_height)>> >>
                 ELSE <<>>)
             \o (IF x > sx
                 THEN << <<sx, Max(sy, y), x - sx, Min(sh, actual_height)>> >>
                 ELSE <<>>)
             \o (IF x + actual_length < sx + sl
                 THEN << <<x + actual_length, Max(sy, y),
                           sx + sl - (x + actual_length), Min(sh, actual_height)>> >>
                 ELSE <<>>)
        ELSE << space >>

RECURSIVE NewRemaining(_, _, _, _, _)
NewRemaining(spaces, x, y, actual_length, actual_height) ==
    IF spaces = <<>> THEN <<>>
    ELSE SplitSpace(Head(spaces), x, y, actual_length, actual_height)
         \o NewRemaining(Tail(spaces), x, y, actual_length, actual_height)

\* Sheet.add_part; p is the heap index of the part
add_part(sh, p, part, x, y, rotated) ==
    LET actual_length == IF rotated THEN part.height ELSE part.length
        actual_height == IF rotated THEN part.length ELSE part.height
    IN  [sh EXCEPT
            !.placements = Append(@, [part |-> p, x |-> x, y |-> y, rotated |-> rotated]),
            !.remaining_space = NewRemaining(@, x, y, actual_length, actual_height)]

(***************************************************************************)
(* find_best_fit                                                           *)
(***************************************************************************)
NoFit == <<-1, -1, FALSE>>
Inf == -1    \* stands for float('inf'); wastes are >= 0

\* a fit test that forgets the height of the free space
FitsWidthOnly(pl, ph, space) == pl <= space[3]

\* line 70: the part, pl long and ph high, fits the free space
Fits(pl, ph, space) == pl <= space[3] /\ ph <= space[4]

\* a scan that keeps the first fitting (space, orientation) pair it meets
RECURSIVE ScanFirstFit(_, _, _, _, _)
ScanFirstFit(spaces, part, k, best_fit, min_waste) ==
    IF k > 2 * Len(spaces) THEN best_fit
    ELSE LET space == spaces[(k + 1) \div 2]
             rotated == (k % 2 = 0)
             pl == IF rotated THEN part.height ELSE part.length
             ph == IF rotated THEN part.length ELSE part.height
         IN  IF pl <= space[3] /\ ph <= space[4]
             THEN <<space[1], space[2], rotated>>
             ELSE ScanFirstFit(spaces, part, k + 1, best_fit, min_waste)

\* one (space, orientation) test of the double loop, k = 1 .. 2 * len(spaces):
\* space (k+1) div 2, unrotated for odd k, rotated for even k
RECURSIVE ScanFit(_, _, _, _, _)
ScanFit(spaces, part, k, best_fit, min_waste) ==
    IF k > 2 * Len(spaces) THEN best_fit
    ELSE LET space == spaces[(k + 1) \div 2]
             rotated == (k % 2 = 0)
             pl == IF rotated THEN part.height ELSE part.length
             ph == IF rotated THEN part.length ELSE part.height
             waste == space[3] * space[4] - pl * ph
         IN  IF Fits(pl, ph, space)
                /\ (min_waste = Inf \/ waste < min_waste)
             THEN ScanFit(spaces, part, k + 1, <<space[1], space[2], rotated>>, waste)
             ELSE ScanFit(spaces, part, k + 1, best_fit, min_waste)

find_best_fit(sh, part) == ScanFit(sh.remaining_space, part, 1, NoFit, Inf)

(***************************************************************************)
(* optimize_cutting_heuristic                                              *)
(***************************************************************************)
Area(part) == part.length * part.height

\* list.sort(key=area, reverse=True) is stable: an element goes behind every
\* element whose key is greater or equal
RECURSIVE InsertByArea(_, _, _)
InsertByArea(sorted, p, h) ==
    IF sorted = <<>> THEN <<p>>
    ELSE IF Area(h[Head(sorted)]) >= Area(h[p])
         THEN <<Head(sorted)>> \o InsertByArea(Tail(sorted), p, h)
         ELSE <<p>> \o sorted

RECURSIVE SortByArea(_, _)
SortByArea(list, h) ==
    IF list = <<>> THEN <<>>
    ELSE InsertByArea(SortByArea(SubSeq(list, 1, Len(list) - 1), h), list[Len(list)], h)

\* list.remove(part): drops the first element equal (dataclass ==) to part
RECURSIVE RemoveFirstEqual(_, _, _)
RemoveFirstEqual(list, part, h) ==
    IF list = <<>> THEN <<>>
    ELSE IF h[Head(list)] = part THEN Tail(list)
         ELSE <<Head(list)>> \o RemoveFirstEqual(Tail(list), part, h)

\* the list object the running call mutates is the caller's own list unless
\* the call was given a copy
CallerSees(newParts) == IF copied THEN caller_parts ELSE newParts

\* lines 132-133: sheets = []; parts.sort(...)
EnterHeuristic ==
    /\ pc = "enter"
    /\ parts' = SortByArea(parts, heap)
    /\ caller_parts' = CallerSees(parts')
    /\ sheets' = <<>>
    /\ pc' = "while"
    /\ UNCHANGED <<input, heap, stock_sizes, snapshot, idx, iter, sheet, sheet_heap,
                   returned, copied>>
    /\ UNCHANGED genVars
    /\ UNCHANGED <<clVars, otherVars>>

\* lines 135-137: while parts: sheet = Sheet(*stock_sizes[0]); for part in parts[:]
WhileParts ==
    /\ pc = "while"
    /\ parts # <<>>
    /\ sheet' = NewSheet(stock_sizes[1][1], stock_sizes[1][2])
    /\ snapshot' = parts
    /\ idx' = 0
    /\ iter' = 0
    /\ pc' = "for"
    /\ UNCHANGED <<input, heap, stock_sizes, caller_parts, parts, sheets, sheet_heap,
                   returned, copied>>
    /\ UNCHANGED genVars
    /\ UNCHANGED <<clVars, otherVars>>

\* lines 137-138: the next part of the snapshot; range(part.quantity) is
\* evaluated once, here
ForPart ==
    /\ pc = "for"
    /\ iter = 0
    /\ idx < Len(snapshot)
    /\ idx' = idx + 1
    /\ iter' = heap[snapshot[idx + 1]].quantity
    /\ UNCHANGED <<input, heap, stock_sizes, caller_parts, parts, snapshot, sheet,
                   sheets, sheet_heap, returned, copied, pc>>
    /\ UNCHANGED genVars
    /\ UNCHANGED <<clVars, otherVars>>

\* a removal test that fires one instance early
ExhaustedEarly(q) == q <= 1

\* a removal test that never fires
ExhaustedNever(q) == q < 0

\* line 143: the part has no instance left to place
Exhausted(q) == q = 0

\* lines 139-144, one iteration of the range loop for the part at heap index
\* p: the Sheet, the Part objects and the parts list after it
PlaceStep(sh, h, list, p) ==
    LET fit == find_best_fit(sh, h[p])
        newHeap == [h EXCEPT ![p].quantity = @ - 1]
    IN  IF fit[1] # -1
        THEN [sheet |-> add_part(sh, p, h[p], fit[1], fit[2], fit[3]),
              heap |-> newHeap,
              parts |-> IF Exhausted(newHeap[p].quantity)
                        THEN RemoveFirstEqual(list, newHeap[p], newHeap)
                        ELSE list]
        ELSE [sheet |-> sh, heap |-> h, parts |-> list]

TryPlace ==
    /\ pc = "for"
    /\ iter > 0
    /\ LET after == PlaceStep(sheet, heap, parts, snapshot[idx])
       IN  /\ sheet' = after.sheet
           /\ heap' = after.heap
           /\ parts' = after.parts
           /\ caller_parts' = CallerSees(after.parts)
    /\ iter' = iter - 1
    /\ UNCHANGED <<input, stock_sizes, snapshot, idx, sheets, sheet_heap, returned,
                   copied, pc>>
    /\ UNCHANGED genVars
    /\ UNCHANGED <<clVars, otherVars>>

\* line 145: sheets.append(sheet).  Only MaxSheets sheets without a placement
\* are recorded: a pass that places nothing leaves parts and every quantity
\* as they were, so every later pass repeats it and appends one more empty
\* sheet; the loop goes on, the model stops recording those sheets.
AppendSheet ==
    /\ pc = "for"
    /\ iter = 0
    /\ idx = Len(snapshot)
    /\ IF sheet.placements = <<>> /\ Len(sheets) >= MaxSheets
       THEN UNCHANGED <<sheets, sheet_heap>>
       ELSE /\ sheet_heap' = Append(sheet_heap, sheet)
            /\ sheets' = Append(sheets, Len(sheet_heap) + 1)
    /\ sheet' = NoSheet
    /\ snapshot' = <<>>
    /\ idx' = 0
    /\ pc' = "while"
    /\ UNCHANGED <<input, heap, stock_sizes, caller_parts, parts, iter, returned, copied>>
    /\ UNCHANGED genVars
    /\ UNCHANGED <<clVars, otherVars>>

\* line 146: return sheets; a call made by initialize_population continues
\* at line 83, population.append(layout)
ReturnSheets ==
    /\ pc = "while"
    /\ parts = <<>>
    /\ IF copied
       THEN /\ population' = Append(population, sheets)
            /\ pc' = "init_pop"
            /\ UNCHANGED returned
       ELSE /\ returned' = Append(returned, sheets)
            /\ pc' = "returned"
            /\ UNCHANGED population
    /\ sheets' = <<>>
    /\ UNCHANGED <<input, heap, stock_sizes, caller_parts, parts, snapshot, idx, iter,
                   sheet, sheet_heap, copied>>
    /\ UNCHANGED <<population_size, generations, generation, best_fitness,
                   next_generation, result>>
    /\ UNCHANGED <<clVars, otherVars>>

Heuristic == EnterHeuristic \/ WhileParts \/ ForPart \/ TryPlace \/ AppendSheet
             \/ ReturnSheets

(***************************************************************************)
(* A caller that runs optimize_cutting_heuristic(parts, stock_sizes) on    *)
(* its list, and then once more on the same list.                          *)
(***************************************************************************)
Shapes == { [location |-> "a", length |-> l, height |-> h] :
                l \in 1..MaxDim, h \in 1..MaxDim }

PartOf(shape, q) == [location |-> shape.location, length |-> shape.length,
                     height |-> shape.height, quantity |-> q]

Demand(list) == SumSeq([i \in 1..Len(list) |-> list[i].quantity])

\* Glass_Cut_list_optimizer.py not started
IdleCL ==
    /\ glass_parts = <<>>
    /\ cl_stock_sizes = <<>>
    /\ gap = 0
    /\ cl_parts = <<>>
    /\ remaining_parts = <<>>
    /\ cl_sheets = <<>>
    /\ stock_idx = 0
    /\ best_utilization = <<0, 1>>
    /\ best_sheet = <<>>
    /\ cl_pc = "idle"

\* the state before the parts are loaded, with one of the given stock_sizes lists
InitWith(stock_lists) ==
    /\ IdleCL
    /\ IdleGC
    /\ IdleHY
    /\ IdleBP
    /\ IdleGR
    /\ input = <<>>
    /\ heap = <<>>
    /\ stock_sizes \in stock_lists
    /\ caller_parts = <<>>
    /\ parts = <<>>
    /\ snapshot = <<>>
    /\ idx = 0
    /\ iter = 0
    /\ sheet = NoSheet
    /\ sheets = <<>>
    /\ sheet_heap = <<>>
    /\ returned = <<>>
    /\ copied = FALSE
    /\ pc = "load"
    /\ population_size = 0
    /\ generations = 0
    /\ population = <<>>
    /\ generation = 0
    /\ best_fitness = <<0, 1>>
    /\ next_generation = <<>>
    /\ result = <<>>

Init == InitWith(StockLists)

\* load_glass_data: one more row becomes a Part of the list; sizes and
\* quantities are positive
LoadRow ==
    /\ pc = "load"
    /\ \E s \in Shapes, q \in 1..(MaxDemand - Demand(input)) :
          /\ input' = Append(input, PartOf(s, q))
          /\ heap' = Append(heap, PartOf(s, q))
          /\ caller_parts' = Append(caller_parts, Len(heap) + 1)
    /\ UNCHANGED <<stock_sizes, parts, snapshot, idx, iter, sheet, sheets, sheet_heap,
                   returned, copied, pc>>
    /\ UNCHANGED genVars
    /\ UNCHANGED <<clVars, otherVars>>

NumCalls == 2

\* optimize_cutting_heuristic(parts, stock_sizes) with the caller's own list
CallHeuristic ==
    /\ pc \in {"load", "returned"}
    /\ Len(returned) < NumCalls
    /\ parts' = caller_parts
    /\ pc' = "enter"
    /\ UNCHANGED <<input, heap, stock_sizes, caller_parts, snapshot, idx, iter, sheet,
                   sheets, sheet_heap, returned, copied>>
    /\ UNCHANGED genVars
    /\ UNCHANGED <<clVars, otherVars>>

Next == LoadRow \/ CallHeuristic \/ Heuristic

Spec == Init /\ [][Next]_vars

FairSpec == Spec /\ WF_vars(Next)

(***************************************************************************)
(* genetic_heuristic_optimization                                          *)
(***************************************************************************)
\* placement.part.length * placement.part.height summed over a sheet
RECURSIVE UsedArea(_, _)
UsedArea(placements, h) ==
    IF placements = <<>> THEN 0
    ELSE Area(h[Head(placements).part]) + UsedArea(Tail(placements), h)

\* fitness (lines 86-93) as the fraction <<numerator, denominator>>:
\* used_area / total_sheet_area, or 0 when there is no sheet area
fitness(layout, sh_heap, h) ==
    LET total_sheet_area ==
            SumSeq([s \in 1..Len(layout) |->
                        sh_heap[layout[s]].length * sh_heap[layout[s]].width])
        used_area ==
            SumSeq([s \in 1..Len(layout) |-> UsedArea(sh_heap[layout[s]].placements, h)])
    IN  IF total_sheet_area > 0 THEN <<used_area, total_sheet_area>> ELSE <<0, 1>>

\* comparison of two fitness values
FitGreater(f, g) == f[1] * g[2] > g[1] * f[2]
FitEqual(f, g) == f[1] * g[2] = g[1] * f[2]

\* population.sort(key=fitness, reverse=True), a stable sort
RECURSIVE InsertByFitness(_, _, _, _)
InsertByFitness(sorted, layout, sh_heap, h) ==
    IF sorted = <<>> THEN <<layout>>
    ELSE IF FitGreater(fitness(layout, sh_heap, h), fitness(Head(sorted), sh_heap, h))
         THEN <<layout>> \o sorted
         ELSE <<Head(sorted)>> \o InsertByFitness(Tail(sorted), layout, sh_heap, h)

RECURSIVE SortByFitness(_, _, _)
SortByFitness(pop, sh_heap, h) ==
    IF pop = <<>> THEN <<>>
    ELSE InsertByFitness(SortByFitness(SubSeq(pop, 1, Len(pop) - 1), sh_heap, h),
                         pop[Len(pop)], sh_heap, h)

\* max(population, key=fitness): the first layout of greatest fitness
RECURSIVE MaxByFitness(_, _, _, _)
MaxByFitness(pop, best, sh_heap, h) ==
    IF pop = <<>> THEN best
    ELSE IF FitGreater(fitness(Head(pop), sh_heap, h), fitness(best, sh_heap, h))
         THEN MaxByFitness(Tail(pop), Head(pop), sh_heap, h)
         ELSE MaxByFitness(Tail(pop), best, sh_heap, h)

\* crossover (lines 95-98)
crossover(parent1, parent2) ==
    LET split == Len(parent1) \div 2
    IN  SubSeq(parent1, 1, split) \o SubSeq(parent2, split + 1, Len(parent2))

\* list.pop(k) on a 1-based sequence
Pop(list, k) == SubSeq(list, 1, k - 1) \o SubSeq(list, k + 1, Len(list))

\* mutate (lines 100-104) with the random choices s (position of the sheet in
\* the child) and k (position of the placement): the Sheet objects after it
mutate(child, sh_heap, s, k) ==
    IF child # <<>> /\ sh_heap[child[s]].placements # <<>>
    THEN [sh_heap EXCEPT ![child[s]].placements = Pop(@, k)]
    ELSE sh_heap

\* genetic_heuristic_optimization(parts, stock_sizes, population_size, generations)
CallGenetic ==
    /\ pc = "load"
    /\ \E P \in 1..MaxPop, G \in 0..MaxGen :
          /\ population_size' = P
          /\ generations' = G
    /\ population' = <<>>
    /\ pc' = "init_pop"
    /\ UNCHANGED gaVars_but_pc
    /\ UNCHANGED <<generation, best_fitness, next_generation, result>>
    /\ UNCHANGED <<clVars, otherVars>>

\* lines 81-82: layout = optimize_cutting_heuristic(parts.copy(), stock_sizes)
InitCandidate ==
    /\ pc = "init_pop"
    /\ Len(population) < population_size
    /\ parts' = caller_parts
    /\ copied' = TRUE
    /\ pc' = "enter"
    /\ UNCHANGED <<input, heap, stock_sizes, caller_parts, snapshot, idx, iter, sheet,
                   sheets, sheet_heap, returned>>
    /\ UNCHANGED genVars
    /\ UNCHANGED <<clVars, otherVars>>

\* lines 84 and 106: the population is complete
PopulationReady ==
    /\ pc = "init_pop"
    /\ Len(population) = population_size
    /\ generation' = 0
    /\ pc' = "gen_loop"
    /\ UNCHANGED gaVars_but_pc
    /\ UNCHANGED <<population_size, generations, population, best_fitness,
                   next_generation, result>>
    /\ UNCHANGED <<clVars, otherVars>>

\* lines 108-114: the next generation starts
StartGeneration ==
    /\ pc = "gen_loop"
    /\ generation < generations
    /\ LET sorted == SortByFitness(population, sheet_heap, heap)
       IN  /\ population' = sorted
           /\ best_fitness' = fitness(sorted[1], sheet_heap, heap)
           /\ next_generation' = SubSeq(sorted, 1, 1)
    /\ pc' = "children"
    /\ UNCHANGED gaVars_but_pc
    /\ UNCHANGED <<population_size, generations, generation, result>>
    /\ UNCHANGED <<clVars, otherVars>>

\* lines 116-121: one child; random.sample draws two different positions of
\* population[:3], random.random() < 0.1 decides on the mutation
MakeChild ==
    /\ pc = "children"
    /\ Len(next_generation) < population_size
    /\ \E i, j \in 1..Min(3, Len(population)) :
          /\ i # j
          /\ LET child == crossover(population[i], population[j])
             IN  /\ next_generation' = Append(next_generation, child)
                 /\ \/ UNCHANGED sheet_heap
                    \/ \E s \in 1..Max(1, Len(child)) :
                          \E k \in 1..Max(1, IF child = <<>> THEN 1
                                             ELSE Len(sheet_heap[child[s]].placements)) :
                             sheet_heap' = mutate(child, sheet_heap, s, k)
    /\ UNCHANGED <<input, heap, stock_sizes, caller_parts, parts, snapshot, idx, iter,
                   sheet, sheets, returned, copied, pc>>
    /\ UNCHANGED <<population_size, generations, population, generation, best_fitness,
                   result>>
    /\ UNCHANGED <<clVars, otherVars>>

\* lines 123-127: the generation ends; early stop
EndGeneration ==
    /\ pc = "children"
    /\ Len(next_generation) >= population_size
    /\ population' = next_generation
    /\ IF Len(next_generation) > 1
          /\ FitEqual(fitness(next_generation[1], sheet_heap, heap), best_fitness)
       THEN pc' = "return_best" /\ UNCHANGED generation
       ELSE pc' = "gen_loop" /\ generation' = generation + 1
    /\ UNCHANGED gaVars_but_pc
    /\ UNCHANGED <<population_size, generations, best_fitness, next_generation, result>>
    /\ UNCHANGED <<clVars, otherVars>>

\* line 108: the generations are used up
EndLoop ==
    /\ pc = "gen_loop"
    /\ generation >= generations
    /\ pc' = "return_best"
    /\ UNCHANGED gaVars_but_pc
    /\ UNCHANGED genVars
    /\ UNCHANGED <<clVars, otherVars>>

\* line 129: return max(population, key=fitness)
ReturnBest ==
    /\ pc = "return_best"
    /\ result' = MaxByFitness(Tail(population), Head(population), sheet_heap, heap)
    /\ pc' = "done"
    /\ UNCHANGED gaVars_but_pc
    /\ UNCHANGED <<population_size, generations, population, generation, best_fitness,
                   next_generation>>
    /\ UNCHANGED <<clVars, otherVars>>

Generations == StartGeneration \/ MakeChild \/ EndGeneration \/ EndLoop \/ ReturnBest

NextGA == LoadRow \/ CallGenetic \/ InitCandidate \/ Heuristic \/ PopulationReady
          \/ Generations

SpecGA == Init /\ [][NextGA]_vars

FairSpecGA == SpecGA /\ WF_vars(NextGA)

\* every loaded part fits an empty sheet of stock_sizes[0] in some orientation
AllFit ==
    \A p \in 1..Len(input) :
        LET empty == <<0, 0, stock_sizes[1][1], stock_sizes[1][2]>>
        IN  \/ Fits(input[p].length, input[p].height, empty)
            \/ Fits(input[p].height, input[p].length, empty)

(***************************************************************************)
(* Glass_Cut_list_optimizer.py                                             *)
(***************************************************************************)
CLMaxDim == 2      \* glass length and height range over 1..CLMaxDim
CLMaxDemand == 4   \* total qty over the glass rows

\* stock lists of load_stock_sizes and cutting gaps offered to calculate_layout
CLStockLists ==
    { << [length |-> 4, width |-> 2, qty |-> 1] >>,
      << [length |-> 1, width |-> 1, qty |-> 1], [length |-> 5, width |-> 3, qty |-> 1] >>,
      << [length |-> 2, width |-> 1, qty |-> 2] >> }
Gaps == {0, 1}

\* expand_parts (lines 20-24)
RECURSIVE expand_parts(_)
expand_parts(rows) ==
    IF rows = <<>> THEN <<>>
    ELSE [i \in 1..Head(rows).qty |->
            [location |-> Head(rows).location, length |-> Head(rows).length,
             height |-> Head(rows).height]]
         \o expand_parts(Tail(rows))

\* line 98: expanded_parts.sort(key=area, reverse=True), a stable sort
RECURSIVE InsertPart(_, _)
InsertPart(sorted, part) ==
    IF sorted = <<>> THEN <<part>>
    ELSE IF Area(Head(sorted)) >= Area(part)
         THEN <<Head(sorted)>> \o InsertPart(Tail(sorted), part)
         ELSE <<part>> \o sorted

RECURSIVE SortParts(_)
SortParts(list) ==
    IF list = <<>> THEN <<>>
    ELSE InsertPart(SortParts(SubSeq(list, 1, Len(list) - 1)), list[Len(list)])

\* can_fit (lines 27-29); a space is <<x, y, width, height>>
can_fit(part, space) ==
    \/ (part.length <= space[3] /\ part.height <= space[4])
    \/ (part.height <= space[3] /\ part.length <= space[4])

\* lines 48-52: position of the first space the part can fit, 0 when none
RECURSIVE FirstFit(_, _, _)
FirstFit(part, spaces, i) ==
    IF i > Len(spaces) THEN 0
    ELSE IF can_fit(part, spaces[i]) THEN i
         ELSE FirstFit(part, spaces, i + 1)

\* line 66: available_space.sort(key=(area, width + height), reverse=True)
SpaceKeyGreater(a, b) ==
    \/ a[3] * a[4] > b[3] * b[4]
    \/ (a[3] * a[4] = b[3] * b[4] /\ a[3] + a[4] > b[3] + b[4])

RECURSIVE InsertSpace(_, _)
InsertSpace(sorted, space) ==
    IF sorted = <<>> THEN <<space>>
    ELSE IF SpaceKeyGreater(space, Head(sorted))
         THEN <<space>> \o sorted
         ELSE <<Head(sorted)>> \o InsertSpace(Tail(sorted), space)

RECURSIVE SortSpaces(_)
SortSpaces(spaces) ==
    IF spaces = <<>> THEN <<>>
    ELSE InsertSpace(SortSpaces(SubSeq(spaces, 1, Len(spaces) - 1)), spaces[Len(spaces)])

\* line 50: the rotated flag of a part placed into a space
RotatedFlag(part, space) == part.height <= space[3] /\ part.length > space[3]

\* place_part (lines 31-32)
place_part(part, position, rotated) ==
    [part |-> part, position |-> position, rotated |-> rotated]

\* lines 46-66 for one part: the trial sheet [placements, available_space]
\* after it
PlaceOne(trial, part, stock, g) ==
    LET i == FirstFit(part, trial.available_space, 1)
        space == trial.available_space[i]
        rotated == RotatedFlag(part, space)
        x == space[1]
        y == space[2]
        w == IF rotated THEN part.height ELSE part.length
        h == IF rotated THEN part.length ELSE part.height
        deleted == Pop(trial.available_space, i)
        right == IF x + w + g < stock.length
                 THEN Append(deleted, <<x + w + g, y, stock.length - (x + w + g), h>>)
                 ELSE deleted
        above == IF y + h + g < stock.width
                 THEN Append(right, <<x, y + h + g, w, stock.width - (y + h + g)>>)
                 ELSE right
    IN  IF i = 0 THEN trial
        ELSE [placements |-> Append(trial.placements, place_part(part, <<x, y>>, rotated)),
              available_space |-> SortSpaces(above)]

\* lines 43-66: the trial sheet of one stock size over the remaining parts
RECURSIVE TrialLoop(_, _, _, _)
TrialLoop(trial, list, stock, g) ==
    IF list = <<>> THEN trial
    ELSE TrialLoop(PlaceOne(trial, Head(list), stock, g), Tail(list), stock, g)

TrialSheet(list, stock, g) ==
    TrialLoop([placements |-> <<>>,
               available_space |-> << <<0, 0, stock.length, stock.width>> >>],
              list, stock, g)

\* line 68: utilization as the fraction <<numerator, denominator>>
RECURSIVE PlacedArea(_)
PlacedArea(placements) ==
    IF placements = <<>> THEN 0
    ELSE Area(Head(placements).part) + PlacedArea(Tail(placements))

Utilization(placements, stock) == <<PlacedArea(placements), stock.length * stock.width>>

\* a removal that drops every element equal to part
RECURSIVE RemoveEvery(_, _)
RemoveEvery(list, part) ==
    IF list = <<>> THEN <<>>
    ELSE IF Head(list) = part THEN RemoveEvery(Tail(list), part)
         ELSE <<Head(list)>> \o RemoveEvery(Tail(list), part)

\* list.remove(part) on a list of dicts
RECURSIVE RemoveFirst(_, _)
RemoveFirst(list, part) ==
    IF list = <<>> THEN <<>>
    ELSE IF Head(list) = part THEN Tail(list)
         ELSE <<Head(list)>> \o RemoveFirst(Tail(list), part)

\* lines 76-77: remove every placed part from remaining_parts
RECURSIVE RemovePlaced(_, _)
RemovePlaced(list, placements) ==
    IF placements = <<>> THEN list
    ELSE RemovePlaced(RemoveFirst(list, Head(placements).part), Tail(placements))

\* min(list, key=area): the first element of least area, by position
RECURSIVE MinArea(_, _, _)
MinArea(list, i, best) ==
    IF i > Len(list) THEN best
    ELSE IF list[i].length * list[i].height < list[best].length * list[best].height
         THEN MinArea(list, i + 1, i)
         ELSE MinArea(list, i + 1, best)

\* min(stock_sizes, key=length * width)
RECURSIVE MinStock(_, _, _)
MinStock(list, i, best) ==
    IF i > Len(list) THEN best
    ELSE IF list[i].length * list[i].width < list[best].length * list[best].width
         THEN MinStock(list, i + 1, i)
         ELSE MinStock(list, i + 1, best)

InitCL ==
    /\ IdleGC
    /\ IdleHY
    /\ IdleBP
    /\ IdleGR
    /\ input = <<>>
    /\ heap = <<>>
    /\ stock_sizes = <<>>
    /\ caller_parts = <<>>
    /\ parts = <<>>
    /\ snapshot = <<>>
    /\ idx = 0
    /\ iter = 0
    /\ sheet = NoSheet
    /\ sheets = <<>>
    /\ sheet_heap = <<>>
    /\ returned = <<>>
    /\ copied = FALSE
    /\ pc = "idle"
    /\ population_size = 0
    /\ generations = 0
    /\ population = <<>>
    /\ generation = 0
    /\ best_fitness = <<0, 1>>
    /\ next_generation = <<>>
    /\ result = <<>>
    /\ glass_parts = <<>>
    /\ cl_stock_sizes \in CLStockLists
    /\ gap \in Gaps
    /\ cl_parts = <<>>
    /\ remaining_parts = <<>>
    /\ cl_sheets = <<>>
    /\ stock_idx = 0
    /\ best_utilization = <<0, 1>>
    /\ best_sheet = <<>>
    /\ cl_pc = "load"

RowQty(rows) == SumSeq([i \in 1..Len(rows) |-> rows[i].qty])

\* load_glass_data (lines 5-11): one more row
CLLoadRow ==
    /\ cl_pc = "load"
    /\ \E l \in 1..CLMaxDim, h \in 1..CLMaxDim, q \in 1..(CLMaxDemand - RowQty(glass_parts)) :
          glass_parts' = Append(glass_parts,
                                [location |-> "a", length |-> l, height |-> h, qty |-> q])
    /\ UNCHANGED <<cl_stock_sizes, gap, cl_parts, remaining_parts, cl_sheets, stock_idx,
                   best_utilization, best_sheet, cl_pc>>
    /\ UNCHANGED <<gaVars, genVars, otherVars>>

\* optimize_glass_cutting lines 95-100 and calculate_layout lines 34-35: expand,
\* sort, call; glass_parts is not read again
CallLayout ==
    /\ cl_pc = "load"
    /\ glass_parts # <<>>
    /\ cl_parts' = SortParts(expand_parts(glass_parts))
    /\ remaining_parts' = cl_parts'
    /\ glass_parts' = <<>>
    /\ cl_sheets' = <<>>
    /\ cl_pc' = "while"
    /\ UNCHANGED <<cl_stock_sizes, gap, stock_idx, best_utilization, best_sheet>>
    /\ UNCHANGED <<gaVars, genVars, otherVars>>

\* lines 37-40: the next sheet is looked for
WhileRemaining ==
    /\ cl_pc = "while"
    /\ remaining_parts # <<>>
    /\ best_utilization' = <<0, 1>>
    /\ best_sheet' = <<>>
    /\ stock_idx' = 1
    /\ cl_pc' = "stocks"
    /\ UNCHANGED <<glass_parts, cl_stock_sizes, gap, cl_parts, remaining_parts, cl_sheets>>
    /\ UNCHANGED <<gaVars, genVars, otherVars>>

\* lines 42-72: the trial sheet of the next stock size
TryStock ==
    /\ cl_pc = "stocks"
    /\ stock_idx <= Len(cl_stock_sizes)
    /\ LET stock == cl_stock_sizes[stock_idx]
           trial == TrialSheet(remaining_parts, stock, gap)
           utilization == Utilization(trial.placements, stock)
       IN  IF FitGreater(utilization, best_utilization)
           THEN /\ best_utilization' = utilization
                /\ best_sheet' = << [size |-> <<stock.length, stock.width>>,
                                     placements |-> trial.placements] >>
           ELSE UNCHANGED <<best_utilization, best_sheet>>
    /\ stock_idx' = stock_idx + 1
    /\ UNCHANGED <<glass_parts, cl_stock_sizes, gap, cl_parts, remaining_parts, cl_sheets,
                   cl_pc>>
    /\ UNCHANGED <<gaVars, genVars, otherVars>>

\* lines 74-77: the best trial sheet is taken
TakeBestSheet ==
    /\ cl_pc = "stocks"
    /\ stock_idx > Len(cl_stock_sizes)
    /\ best_sheet # <<>>
    /\ cl_sheets' = Append(cl_sheets, best_sheet[1])
    /\ remaining_parts' = RemovePlaced(remaining_parts, best_sheet[1].placements)
    /\ cl_pc' = "while"
    /\ UNCHANGED <<glass_parts, cl_stock_sizes, gap, cl_parts, stock_idx, best_utilization,
                   best_sheet>>
    /\ UNCHANGED <<gaVars, genVars, otherVars>>

\* lines 78-86: no stock size took any part
SmallestOnNewSheet ==
    /\ cl_pc = "stocks"
    /\ stock_idx > Len(cl_stock_sizes)
    /\ best_sheet = <<>>
    /\ LET smallest_part == remaining_parts[MinArea(remaining_parts, 1, 1)]
           smallest_stock == cl_stock_sizes[MinStock(cl_stock_sizes, 1, 1)]
       IN  /\ cl_sheets' = Append(cl_sheets,
                  [size |-> <<smallest_stock.length, smallest_stock.width>>,
                   placements |-> << place_part(smallest_part, <<0, 0>>, FALSE) >>])
           /\ remaining_parts' = RemoveFirst(remaining_parts, smallest_part)
    /\ cl_pc' = "while"
    /\ UNCHANGED <<glass_parts, cl_stock_sizes, gap, cl_parts, stock_idx, best_utilization,
                   best_sheet>>
    /\ UNCHANGED <<gaVars, genVars, otherVars>>

\* line 88: return sheets
ReturnLayout ==
    /\ cl_pc = "while"
    /\ remaining_parts = <<>>
    /\ cl_pc' = "done"
    /\ UNCHANGED <<glass_parts, cl_stock_sizes, gap, cl_parts, remaining_parts, cl_sheets,
                   stock_idx, best_utilization, best_sheet>>
    /\ UNCHANGED <<gaVars, genVars, otherVars>>

NextCL == CLLoadRow \/ CallLayout \/ WhileRemaining \/ TryStock \/ TakeBestSheet
          \/ SmallestOnNewSheet \/ ReturnLayout

SpecCL == InitCL /\ [][NextCL]_vars

\* TryStock can be taken exactly when its two guards hold: the rest of the
\* action assigns values that are always defined
TryStockEnabled == cl_pc = "stocks" /\ stock_idx <= Len(cl_stock_sizes)

\* the interpreter goes on running calculate_layout once it is called: weak
\* fairness of every step of the function, for TryStock written out with
\* TryStockEnabled in place of ENABLED <<TryStock>>_vars
FairSpecCL ==
    /\ SpecCL
    /\ WF_vars(WhileRemaining \/ TakeBestSheet \/ SmallestOnNewSheet \/ ReturnLayout)
    /\ ([]<>~TryStockEnabled \/ []<><<TryStock>>_vars)

(***************************************************************************)
(* Properties of optimize_cutting_heuristic.                               *)
(***************************************************************************)
\* the rectangle a placement covers: <<x, y, width, height>>
PlacedRect(pl) ==
    LET part == input[pl.part]
    IN  <<pl.x, pl.y,
          IF pl.rotated THEN part.height ELSE part.length,
          IF pl.rotated THEN part.length ELSE part.height>>

\* two rectangles have a common interior point
Overlap(a, b) ==
    /\ a[1] < b[1] + b[3]
    /\ b[1] < a[1] + a[3]
    /\ a[2] < b[2] + b[4]
    /\ b[2] < a[2] + a[4]

NoOverlapOn(sh) ==
    \A i, j \in 1..Len(sh.placements) :
        i < j => ~Overlap(PlacedRect(sh.placements[i]), PlacedRect(sh.placements[j]))

InsideSheet(sh) ==
    \A i \in 1..Len(sh.placements) :
        LET r == PlacedRect(sh.placements[i])
        IN  /\ 0 <= r[1]
            /\ 0 <= r[2]
            /\ r[1] + r[3] <= sh.length
            /\ r[2] + r[4] <= sh.width

\* every Sheet object that exists: those appended to a layout and the one
\* being filled
AllSheets == { sheet_heap[i] : i \in 1..Len(sheet_heap) } \cup {sheet}

\* C1: on every sheet of every layout of optimize_cutting_heuristic, and
\* after every add_part step, no two placements overlap.
C1_NoOverlap == \A sh \in AllSheets : NoOverlapOn(sh)

\* C2: every placement lies inside its sheet: 0 <= x, 0 <= y,
\* x + effective width <= sheet.length, y + effective height <= sheet.width.
C2_InsideSheet == \A sh \in AllSheets : InsideSheet(sh)

\* a layout was returned that holds a rotated placement away from the origin
C2_Witness ==
    /\ Len(returned) >= 1
    /\ \E s \in 1..Len(returned[1]) :
          \E i \in 1..Len(sheet_heap[returned[1][s]].placements) :
             LET pl == sheet_heap[returned[1][s]].placements[i]
             IN  pl.rotated /\ pl.x > 0 /\ pl.y > 0

\* number of placements of part p over the sheets of a layout
RECURSIVE CountIn(_, _)
CountIn(placements, p) ==
    IF placements = <<>> THEN 0
    ELSE (IF Head(placements).part = p THEN 1 ELSE 0) + CountIn(Tail(placements), p)

PlacedCount(layout, p) ==
    SumSeq([s \in 1..Len(layout) |-> CountIn(sheet_heap[layout[s]].placements, p)])

\* C3: when optimize_cutting_heuristic returns, every input Part of required
\* quantity q has exactly q placements over the returned sheets.
C3_Conservation ==
    Len(returned) >= 1 =>
        \A p \in 1..Len(input) : PlacedCount(returned[1], p) = input[p].quantity

\* a run returned several sheets for a list with a part required twice or more
C3_Witness ==
    /\ Len(returned) >= 1
    /\ Len(returned[1]) >= 2
    /\ Len(input) >= 2
    /\ \E p \in 1..Len(input) : input[p].quantity >= 2

\* C4: for every input, also one with a part that fits the stock sheet in
\* neither orientation, optimize_cutting_heuristic terminates.
C4_Terminates == (pc = "enter") ~> (pc = "returned")

\* the sheets of a layout, by value
Content(layout) == [s \in 1..Len(layout) |-> sheet_heap[layout[s]]]

\* C7: two successive calls with the same parts list and the same stock sizes
\* return the same sheets with the same placements.
C7_SameResultTwice ==
    Len(returned) = 2 => Content(returned[1]) = Content(returned[2])

(***************************************************************************)
(* Properties of genetic_heuristic_optimization.                           *)
(***************************************************************************)
\* C5: for population_size >= 1, generations >= 0 and parts that all fit the
\* stock sheet, genetic_heuristic_optimization terminates and returns a layout.
C5_Terminates == (pc = "init_pop" /\ AllFit) ~> (pc = "done")

\* C6: a candidate run on parts.copy() leaves the quantity of every Part of
\* the caller's list unchanged.
C6_QuantitiesUnchanged ==
    (pc = "init_pop" /\ Len(population) >= 1) =>
        \A p \in 1..Len(caller_parts) :
            heap[caller_parts[p]].quantity = input[caller_parts[p]].quantity

\* a layout holds every demanded instance exactly once (the code keeps no
\* list of unplaced instances)
Conserves(layout) ==
    \A p \in 1..Len(input) : PlacedCount(layout, p) = input[p].quantity

\* a child exists (line 121 has run) only when the part list is empty: with
\* parts in the list the second candidate run of line 82 finds every quantity
\* at 0 and does not return, and with population_size 1 the loop of line 116
\* is not entered
ChildOnlyOfEmptyList == Len(next_generation) >= 2 => input = <<>>

\* C8: with parents that each place the full demand, every child built by
\* crossover and mutate, and the layout returned, accounts for every demanded
\* instance exactly once.
C8_ChildrenConserve ==
    /\ \A c \in 1..Len(next_generation) : Conserves(next_generation[c])
    /\ pc = "done" => Conserves(result)

(***************************************************************************)
(* Properties of calculate_layout.                                         *)
(***************************************************************************)
\* the rectangle a placement of calculate_layout covers
CLRect(pl) ==
    <<pl.position[1], pl.position[2],
      IF pl.rotated THEN pl.part.height ELSE pl.part.length,
      IF pl.rotated THEN pl.part.length ELSE pl.part.height>>

\* two rectangles are at least g apart horizontally or vertically
Apart(a, b, g) ==
    \/ a[1] + a[3] + g <= b[1]
    \/ b[1] + b[3] + g <= a[1]
    \/ a[2] + a[4] + g <= b[2]
    \/ b[2] + b[4] + g <= a[2]

\* C9: any two placements on the same sheet of calculate_layout are at least
\* gap apart horizontally or vertically (so they never overlap).
C9_GapApart ==
    \A s \in 1..Len(cl_sheets) :
        \A i, j \in 1..Len(cl_sheets[s].placements) :
            i < j => Apart(CLRect(cl_sheets[s].placements[i]),
                           CLRect(cl_sheets[s].placements[j]), gap)

\* C10: a part that fits no stock size in either orientation appears on no
\* sheet of calculate_layout.
C10_OversizedNeverPlaced ==
    \A s \in 1..Len(cl_sheets) :
        \A i \in 1..Len(cl_sheets[s].placements) :
            \E k \in 1..Len(cl_stock_sizes) :
                can_fit(cl_sheets[s].placements[i].part,
                        <<0, 0, cl_stock_sizes[k].length, cl_stock_sizes[k].width>>)

\* the number of sheets of the layout whose size is that of stock entry k
SheetsOfSize(layout, stock) ==
    Cardinality({ s \in 1..Len(layout) : layout[s].size = <<stock.length, stock.width>> })

\* C11: in the layout calculate_layout returns, the number of sheets of each
\* stock size is at most the qty of that stock entry.
C11_WithinStockQty ==
    cl_pc = "done" =>
        \A k \in 1..Len(cl_stock_sizes) :
            SheetsOfSize(cl_sheets, cl_stock_sizes[k]) <= cl_stock_sizes[k].qty

(***************************************************************************)
(* GlassCuttingIO.py: GlassCuttingOptimizer.optimize.                      *)
(***************************************************************************)
GCMaxDim == 2      \* panel length and height range over 1..GCMaxDim
GCMaxDemand == 4   \* total quantity over the panel rows

\* Stock lists of load_stock_sizes and cut widths given to the optimizer
GCStockLists ==
    { << [length |-> 3, width |-> 2, quantity |-> 1],
         [length |-> 4, width |-> 3, quantity |-> 2] >>,
      << [length |-> 2, width |-> 2, quantity |-> 0],
         [length |-> 3, width |-> 3, quantity |-> 1] >>,
      << [length |-> 2, width |-> 2, quantity |-> 1],
         [length |-> 2, width |-> 2, quantity |-> 2],
         [length |-> 3, width |-> 3, quantity |-> 1] >>,
      << [length |-> 5, width |-> 4, quantity |-> 2] >> }
CutWidths == {0, 1}

\* the engines of Genetic_Algorithm.py are not running
IdleGA ==
    /\ input = <<>>
    /\ heap = <<>>
    /\ stock_sizes = <<>>
    /\ caller_parts = <<>>
    /\ parts = <<>>
    /\ snapshot = <<>>
    /\ idx = 0
    /\ iter = 0
    /\ sheet = NoSheet
    /\ sheets = <<>>
    /\ sheet_heap = <<>>
    /\ returned = <<>>
    /\ copied = FALSE
    /\ pc = "idle"
    /\ population_size = 0
    /\ generations = 0
    /\ population = <<>>
    /\ generation = 0
    /\ best_fitness = <<0, 1>>
    /\ next_generation = <<>>
    /\ result = <<>>

\* the key f"{stock.length}x{stock.width}" of sheets_used and sheet_size: two
\* stocks have the same key exactly when their length and width are equal
SizeKey(stock) == <<stock.length, stock.width>>

\* lines 84-87: one (length, height, location) tuple per panel instance
RECURSIVE ExpandPanels(_)
ExpandPanels(rows) ==
    IF rows = <<>> THEN <<>>
    ELSE [i \in 1..Head(rows).quantity |->
            <<Head(rows).length, Head(rows).height, Head(rows).location>>]
         \o ExpandPanels(Tail(rows))

\* line 88: the key (height, length) of a tuple a is greater than that of b
PanelKeyGreater(a, b) == a[2] > b[2] \/ (a[2] = b[2] /\ a[1] > b[1])

\* line 88: sorted_panels.sort(key=(height, length), reverse=True), stable
RECURSIVE InsertPanel(_, _)
InsertPanel(sorted, panel) ==
    IF sorted = <<>> THEN <<panel>>
    ELSE IF PanelKeyGreater(panel, Head(sorted))
         THEN <<panel>> \o sorted
         ELSE <<Head(sorted)>> \o InsertPanel(Tail(sorted), panel)

RECURSIVE SortPanels(_)
SortPanels(list) ==
    IF list = <<>> THEN <<>>
    ELSE InsertPanel(SortPanels(SubSeq(list, 1, Len(list) - 1)), list[Len(list)])

InitGC ==
    /\ IdleGA
    /\ IdleCL
    /\ IdleHY
    /\ IdleBP
    /\ IdleGR
    /\ gc_stocks \in GCStockLists
    /\ cut_width \in CutWidths
    /\ panels = <<>>
    /\ sorted_panels = <<>>
    /\ panel_idx = 0
    /\ current_stock_idx = 0
    /\ current_sheet = 0
    /\ cur_x = 0
    /\ cur_y = 0
    /\ max_height = 0
    /\ sheets_used = <<>>
    /\ total_panel_area = 0
    /\ gc_total_sheet_area = 0
    /\ all_placements = <<>>
    /\ gc_result = <<>>
    /\ gc_raised = ""
    /\ gc_pc = "load"

notGC == <<gaVars, genVars, clVars, hyVars, bpVars, grVars>>

PanelQty(rows) == SumSeq([i \in 1..Len(rows) |-> rows[i].quantity])

\* load_glass_data (lines 45-59): one more Panel row
GCLoadPanel ==
    /\ gc_pc = "load"
    /\ \E l \in 1..GCMaxDim, h \in 1..GCMaxDim, q \in 1..(GCMaxDemand - PanelQty(panels)) :
          panels' = Append(panels,
                           [length |-> l, height |-> h, quantity |-> q, location |-> "a"])
    /\ UNCHANGED <<gc_stocks, cut_width, sorted_panels, panel_idx, current_stock_idx,
                   current_sheet, cur_x, cur_y, max_height, sheets_used, total_panel_area,
                   gc_total_sheet_area, all_placements, gc_result, gc_raised, gc_pc>>
    /\ UNCHANGED notGC

\* lines 78-95: optimize is called and reaches its for loop
CallOptimize ==
    /\ gc_pc = "load"
    /\ sorted_panels' = SortPanels(ExpandPanels(panels))
    /\ sheets_used' = [k \in { SizeKey(gc_stocks[i]) : i \in 1..Len(gc_stocks) } |-> 0]
    /\ panel_idx' = 1
    /\ gc_pc' = IF sorted_panels' = <<>> THEN "last" ELSE "while"
    /\ UNCHANGED <<gc_stocks, cut_width, panels, current_stock_idx, current_sheet, cur_x,
                   cur_y, max_height, total_panel_area, gc_total_sheet_area,
                   all_placements, gc_result, gc_raised>>
    /\ UNCHANGED notGC

\* line 99: stock = self.stocks[current_stock_idx]
CurrentStock == gc_stocks[current_stock_idx + 1]

\* the panel's length without the cutting width
bare_length == sorted_panels[panel_idx][1]

\* lines 102-103
effective_length == sorted_panels[panel_idx][1] + cut_width
effective_height == sorted_panels[panel_idx][2] + cut_width

\* lines 106-107: the panel fits at the current position
FitsHere ==
    /\ cur_x + effective_length <= CurrentStock.length
    /\ cur_y + effective_height <= CurrentStock.width

\* line 124: a new row can be started
FitsNextRow ==
    /\ cur_x > 0
    /\ cur_y + max_height + effective_height <= CurrentStock.width

\* lines 106-121, then the next panel of the for loop
PlacePanel ==
    /\ gc_pc = "while"
    /\ FitsHere
    /\ all_placements' = Append(all_placements,
           [location |-> sorted_panels[panel_idx][3],
            x |-> cur_x,
            y |-> cur_y,
            length |-> sorted_panels[panel_idx][1],
            height |-> sorted_panels[panel_idx][2],
            sheet_size |-> SizeKey(CurrentStock),
            sheet_number |-> current_sheet])
    /\ max_height' = Max(max_height, effective_height)
    /\ cur_x' = cur_x + effective_length
    /\ total_panel_area' =
           total_panel_area + sorted_panels[panel_idx][1] * sorted_panels[panel_idx][2]
    /\ panel_idx' = panel_idx + 1
    /\ gc_pc' = IF panel_idx' > Len(sorted_panels) THEN "last" ELSE "while"
    /\ UNCHANGED <<gc_stocks, cut_width, panels, sorted_panels, current_stock_idx,
                   current_sheet, cur_y, sheets_used, gc_total_sheet_area, gc_result,
                   gc_raised>>
    /\ UNCHANGED notGC

\* lines 124-128
NextRow ==
    /\ gc_pc = "while"
    /\ ~FitsHere
    /\ FitsNextRow
    /\ cur_x' = 0
    /\ cur_y' = cur_y + max_height
    /\ max_height' = 0
    /\ UNCHANGED <<gc_stocks, cut_width, panels, sorted_panels, panel_idx,
                   current_stock_idx, current_sheet, sheets_used, total_panel_area,
                   gc_total_sheet_area, all_placements, gc_result, gc_raised, gc_pc>>
    /\ UNCHANGED notGC

\* lines 131-144: the current sheet is counted and the next one is taken, of the
\* next stock when the count of this size has reached the stock's quantity;
\* ValueError when there is no next stock
NextSheet ==
    /\ gc_pc = "while"
    /\ ~FitsHere
    /\ ~FitsNextRow
    /\ sheets_used' = [sheets_used EXCEPT ![SizeKey(CurrentStock)] = @ + 1]
    /\ gc_total_sheet_area' = gc_total_sheet_area + CurrentStock.length * CurrentStock.width
    /\ current_stock_idx' =
           IF sheets_used'[SizeKey(CurrentStock)] >= CurrentStock.quantity
           THEN current_stock_idx + 1 ELSE current_stock_idx
    /\ IF current_stock_idx' >= Len(gc_stocks)
       THEN /\ gc_raised' = "ValueError"
            /\ gc_pc' = "raised"
            /\ UNCHANGED <<current_sheet, cur_x, cur_y, max_height>>
       ELSE /\ current_sheet' = current_sheet + 1
            /\ cur_x' = 0
            /\ cur_y' = 0
            /\ max_height' = 0
            /\ UNCHANGED <<gc_raised, gc_pc>>
    /\ UNCHANGED <<gc_stocks, cut_width, panels, sorted_panels, panel_idx,
                   total_panel_area, all_placements, gc_result>>
    /\ UNCHANGED notGC

\* lines 146-152: the last sheet is counted and the result returned;
\* ZeroDivisionError when no sheet was counted.  `stock` is the one of the last
\* pass of the while loop, which is self.stocks[current_stock_idx]
ReturnResult ==
    /\ gc_pc = "last"
    /\ IF cur_x > 0 \/ cur_y > 0
       THEN /\ sheets_used' = [sheets_used EXCEPT ![SizeKey(CurrentStock)] = @ + 1]
            /\ gc_total_sheet_area' =
                   gc_total_sheet_area + CurrentStock.length * CurrentStock.width
       ELSE UNCHANGED <<sheets_used, gc_total_sheet_area>>
    /\ IF gc_total_sheet_area' = 0
       THEN /\ gc_raised' = "ZeroDivisionError"
            /\ gc_pc' = "raised"
            /\ UNCHANGED gc_result
       ELSE /\ gc_result' = << [placements |-> all_placements,
                                total_sheets |-> sheets_used',
                                efficiency |-> <<total_panel_area * 100,
                                                 gc_total_sheet_area'>>] >>
            /\ gc_pc' = "returned"
            /\ UNCHANGED gc_raised
    /\ UNCHANGED <<gc_stocks, cut_width, panels, sorted_panels, panel_idx,
                   current_stock_idx, current_sheet, cur_x, cur_y, max_height,
                   total_panel_area, all_placements>>
    /\ UNCHANGED notGC

NextGC == GCLoadPanel \/ CallOptimize \/ PlacePanel \/ NextRow \/ NextSheet \/ ReturnResult

SpecGC == InitGC /\ [][NextGC]_vars

(***************************************************************************)
(* Properties of GlassCuttingOptimizer.optimize.                           *)
(***************************************************************************)
\* the quantity in stock of sheets of one size (entries of equal size add up)
QuantityOfSize(k) ==
    SumSeq([i \in 1..Len(gc_stocks) |->
               IF SizeKey(gc_stocks[i]) = k THEN gc_stocks[i].quantity ELSE 0])

\* the sheet being filled has a placement, is of size k and is not yet counted
\* in sheets_used
OpenSheetOfSize(k) ==
    /\ gc_pc \in {"while", "last"}
    /\ \E p \in 1..Len(all_placements) :
          /\ all_placements[p].sheet_number = current_sheet
          /\ all_placements[p].sheet_size = k

\* the number of sheets of size k opened so far
SheetsOpened(k) == sheets_used[k] + (IF OpenSheetOfSize(k) THEN 1 ELSE 0)

\* C12: in every state of the placement loop, for every stock type of
\* non-negative quantity, the sheets of that type that were opened (counted in
\* total_sheets or holding a placement) are at most the quantity in stock.
C12_WithinQuantity ==
    gc_pc \notin {"idle", "load"} =>
        \A i \in 1..Len(gc_stocks) :
            gc_stocks[i].quantity >= 0 =>
                SheetsOpened(SizeKey(gc_stocks[i])) <= QuantityOfSize(SizeKey(gc_stocks[i]))

\* C13: when every stock type is exhausted while panels remain, optimize
\* returns: the caller gets a result that holds the placements made so far.
C13_PartialReturned ==
    (gc_stocks # <<>> /\ current_stock_idx >= Len(gc_stocks)) =>
        /\ gc_pc = "returned"
        /\ gc_result # <<>>
        /\ gc_result[1].placements = all_placements

\* the quantity in stock of sheets of size k over the first n stock entries
EarlierQuantity(n, k) ==
    SumSeq([i \in 1..n |-> IF SizeKey(gc_stocks[i]) = k THEN gc_stocks[i].quantity ELSE 0])

\* C14: the current stock index never decreases, and whenever a placement is
\* made, for every stock type before the current one as many sheets of it have
\* been closed as its quantity.
C14_ListOrder ==
    [][/\ current_stock_idx' >= current_stock_idx
       /\ Len(all_placements') > Len(all_placements) =>
             \A i \in 1..current_stock_idx :
                 sheets_used[SizeKey(gc_stocks[i])]
                     >= EarlierQuantity(current_stock_idx, SizeKey(gc_stocks[i]))]_vars

(***************************************************************************)
(* HybridGlassCuttingOptimizer.py.  GlassPiece objects are compared by     *)
(* identity (the class defines no __eq__), so lists of pieces are          *)
(* sequences of positions in glass_pieces.                                 *)
(***************************************************************************)
HYMaxDim == 2      \* piece length and height range over 1..HYMaxDim
HYMaxDemand == 3   \* total qty over the glass pieces

\* stock_sheets as main builds them: one StockSheet per sheet in stock
HYStockSheetLists ==
    { << [length |-> 2, width |-> 2] >>,
      << [length |-> 2, width |-> 1], [length |-> 2, width |-> 1] >>,
      << [length |-> 1, width |-> 1], [length |-> 3, width |-> 2] >> }

\* the divisor of StockSheet.total_area = length * width / 1_000_000
Million == 1000000

\* StockSheet.total_area (line 17) as the fraction <<numerator, denominator>>
total_area(stock_sheet) == <<stock_sheet.length * stock_sheet.width, Million>>

\* line 27: [piece for piece in self.glass_pieces for _ in range(piece.qty)]
RECURSIVE ExpandPieces(_, _)
ExpandPieces(pieces, i) ==
    IF i > Len(pieces) THEN <<>>
    ELSE [k \in 1..pieces[i].qty |-> i] \o ExpandPieces(pieces, i + 1)

\* lines 26-30: sorted(..., key=area, reverse=True), a stable sort
RECURSIVE InsertPiece(_, _, _)
InsertPiece(sorted, i, pieces) ==
    IF sorted = <<>> THEN <<i>>
    ELSE IF Area(pieces[Head(sorted)]) >= Area(pieces[i])
         THEN <<Head(sorted)>> \o InsertPiece(Tail(sorted), i, pieces)
         ELSE <<i>> \o sorted

RECURSIVE SortPieces(_, _)
SortPieces(list, pieces) ==
    IF list = <<>> THEN <<>>
    ELSE InsertPiece(SortPieces(SubSeq(list, 1, Len(list) - 1), pieces),
                     list[Len(list)], pieces)

\* list.remove(piece): the first occurrence of the object
RECURSIVE RemovePiece(_, _)
RemovePiece(list, i) ==
    IF list = <<>> THEN <<>>
    ELSE IF Head(list) = i THEN Tail(list)
         ELSE <<Head(list)>> \o RemovePiece(Tail(list), i)

\* lines 66-67: the piece fits the sheet in one of the two orientations
FitsSheet(piece, stock_sheet) ==
    \/ (piece.length <= stock_sheet.length /\ piece.height <= stock_sheet.width)
    \/ (piece.height <= stock_sheet.length /\ piece.length <= stock_sheet.width)

\* lines 70-72: piece_area / sheet_area as a fraction
efficiency(piece, stock_sheet) ==
    <<piece.length * piece.height, stock_sheet.length * stock_sheet.width>>

\* lines 61-76: best_piece after the for loop from position k on, 0 for None
RECURSIVE BestPiece(_, _, _, _, _, _)
BestPiece(list, k, best_piece, best_efficiency, stock_sheet, pieces) ==
    IF k > Len(list) THEN best_piece
    ELSE IF /\ FitsSheet(pieces[list[k]], stock_sheet)
            /\ FitGreater(efficiency(pieces[list[k]], stock_sheet), best_efficiency)
         THEN BestPiece(list, k + 1, list[k], efficiency(pieces[list[k]], stock_sheet),
                        stock_sheet, pieces)
         ELSE BestPiece(list, k + 1, best_piece, best_efficiency, stock_sheet, pieces)

\* lines 60-82: the while loop of _optimize_single_sheet
RECURSIVE SingleSheetLoop(_, _, _, _)
SingleSheetLoop(remaining, sheet_cuts, stock_sheet, pieces) ==
    IF remaining = <<>> THEN sheet_cuts
    ELSE LET best_piece == BestPiece(remaining, 1, 0, <<0, 1>>, stock_sheet, pieces)
         IN  IF best_piece # 0
             THEN SingleSheetLoop(RemovePiece(remaining, best_piece),
                                  Append(sheet_cuts, best_piece), stock_sheet, pieces)
             ELSE sheet_cuts

\* _optimize_single_sheet (lines 56-84)
optimize_single_sheet(stock_sheet, list, pieces) ==
    SingleSheetLoop(list, <<>>, stock_sheet, pieces)

\* lines 48-49: remove every cut from remaining_pieces
RECURSIVE RemoveCuts(_, _)
RemoveCuts(list, sheet_cuts) ==
    IF sheet_cuts = <<>> THEN list
    ELSE RemoveCuts(RemovePiece(list, Head(sheet_cuts)), Tail(sheet_cuts))

\* line 40: sum(cut.length * cut.height for cut in sheet_cuts)
CutArea(sheet_cuts, pieces) ==
    SumSeq([k \in 1..Len(sheet_cuts) |-> Area(pieces[sheet_cuts[k]])])

\* lines 40 and 44: sheet_util * 100 with sheet_util = cut area / total_area,
\* as a fraction
utilization_percentage(sheet_cuts, stock_sheet, pieces) ==
    <<CutArea(sheet_cuts, pieces) * total_area(stock_sheet)[2] * 100,
      total_area(stock_sheet)[1]>>

InitHY ==
    /\ IdleGA
    /\ IdleCL
    /\ IdleGC
    /\ IdleBP
    /\ IdleGR
    /\ stock_sheets \in HYStockSheetLists
    /\ glass_pieces = <<>>
    /\ hy_remaining = <<>>
    /\ hy_idx = 0
    /\ sheet_utilization = <<>>
    /\ hy_pc = "load"

notHY == <<gaVars, genVars, clVars, gcVars, bpVars, grVars>>

PieceQty(pieces) == SumSeq([i \in 1..Len(pieces) |-> pieces[i].qty])

\* main, lines 92-99: one more GlassPiece
HYLoadPiece ==
    /\ hy_pc = "load"
    /\ \E l \in 1..HYMaxDim, h \in 1..HYMaxDim, q \in 1..(HYMaxDemand - PieceQty(glass_pieces)) :
          glass_pieces' = Append(glass_pieces,
                                 [location |-> "a", length |-> l, height |-> h, qty |-> q])
    /\ UNCHANGED <<stock_sheets, hy_remaining, hy_idx, sheet_utilization, hy_pc>>
    /\ UNCHANGED notHY

\* optimize, lines 24-34
CallHybrid ==
    /\ hy_pc = "load"
    /\ hy_remaining' = SortPieces(ExpandPieces(glass_pieces, 1), glass_pieces)
    /\ sheet_utilization' = <<>>
    /\ hy_idx' = 1
    /\ hy_pc' = "for"
    /\ UNCHANGED <<stock_sheets, glass_pieces>>
    /\ UNCHANGED notHY

\* optimize, lines 36-49: the next stock sheet
HYSheet ==
    /\ hy_pc = "for"
    /\ hy_idx <= Len(stock_sheets)
    /\ LET stock_sheet == stock_sheets[hy_idx]
           sheet_cuts == optimize_single_sheet(stock_sheet, hy_remaining, glass_pieces)
       IN  IF sheet_cuts # <<>>
           THEN /\ sheet_utilization' = Append(sheet_utilization,
                       [sheet_size |-> <<stock_sheet.length, stock_sheet.width>>,
                        utilized_pieces |-> Len(sheet_cuts),
                        utilization_percentage |->
                            utilization_percentage(sheet_cuts, stock_sheet, glass_pieces)])
                /\ hy_remaining' = RemoveCuts(hy_remaining, sheet_cuts)
           ELSE UNCHANGED <<sheet_utilization, hy_remaining>>
    /\ hy_idx' = hy_idx + 1
    /\ UNCHANGED <<stock_sheets, glass_pieces, hy_pc>>
    /\ UNCHANGED notHY

\* optimize, lines 51-54
ReturnHybrid ==
    /\ hy_pc = "for"
    /\ hy_idx > Len(stock_sheets)
    /\ hy_pc' = "returned"
    /\ UNCHANGED <<stock_sheets, glass_pieces, hy_remaining, hy_idx, sheet_utilization>>
    /\ UNCHANGED notHY

NextHY == HYLoadPiece \/ CallHybrid \/ HYSheet \/ ReturnHybrid

SpecHY == InitHY /\ [][NextHY]_vars

\* C15: every utilization_percentage reported per sheet lies between 0 and 100.
C15_UtilizationInRange ==
    \A s \in 1..Len(sheet_utilization) :
        /\ sheet_utilization[s].utilization_percentage[1] >= 0
        /\ sheet_utilization[s].utilization_percentage[1]
               <= 100 * sheet_utilization[s].utilization_percentage[2]

(***************************************************************************)
(* bin-packing-handler.py: BinPacker.                                      *)
(***************************************************************************)
BPMaxDim == 3      \* part width and height range over 1..BPMaxDim
BPMaxDemand == 3   \* total quantity over the rows of the parts file

\* stock size lists of FileHandler.load_stock_sizes
BPStockLists ==
    { << [name |-> "A", width |-> 3, height |-> 2, quantity |-> 2] >>,
      << [name |-> "A", width |-> 2, height |-> 2, quantity |-> 1],
         [name |-> "B", width |-> 3, height |-> 3, quantity |-> 1] >> }

\* line 93: sorted(parts, key=width * height, reverse=True), a stable sort
RECURSIVE InsertBPPart(_, _)
InsertBPPart(sorted, part) ==
    IF sorted = <<>> THEN <<part>>
    ELSE IF Head(sorted).width * Head(sorted).height >= part.width * part.height
         THEN <<Head(sorted)>> \o InsertBPPart(Tail(sorted), part)
         ELSE <<part>> \o sorted

RECURSIVE SortBPParts(_)
SortBPParts(list) ==
    IF list = <<>> THEN <<>>
    ELSE InsertBPPart(SortBPParts(SubSeq(list, 1, Len(list) - 1)), list[Len(list)])

InitBP ==
    /\ IdleGA
    /\ IdleCL
    /\ IdleGC
    /\ IdleHY
    /\ IdleGR
    /\ bp_parts = <<>>
    /\ bp_stock_sizes \in BPStockLists
    /\ bp_idx = 0
    /\ current_x = 0
    /\ current_y = 0
    /\ max_height_in_row = 0
    /\ bp_remaining = <<>>
    /\ stock_used = 0
    /\ results = <<>>
    /\ bp_pc = "load"

notBP == <<gaVars, genVars, clVars, gcVars, hyVars, grVars>>

\* the rows loaded so far: the first components of the part ids
RowsLoaded(list) == { list[i].id[1] : i \in 1..Len(list) }

\* FileHandler.load_parts (lines 49-56): one more row of the file becomes
\* `quantity` parts of quantity 1; the id f"{row['id']}_{i+1}" is <<row, i + 1>>
BPLoadRow ==
    /\ bp_pc = "load"
    /\ \E w \in 1..BPMaxDim, h \in 1..BPMaxDim, q \in 1..(BPMaxDemand - Len(bp_parts)) :
          bp_parts' = bp_parts \o
              [i \in 1..q |-> [id |-> <<Cardinality(RowsLoaded(bp_parts)) + 1, i>>,
                               width |-> w, height |-> h, quantity |-> 1]]
    /\ UNCHANGED <<bp_stock_sizes, bp_idx, current_x, current_y, max_height_in_row,
                   bp_remaining, stock_used, results, bp_pc>>
    /\ UNCHANGED notBP

\* BinPacker.__init__ (lines 92-95) and the call of pack
CallPack ==
    /\ bp_pc = "load"
    /\ bp_parts' = SortBPParts(bp_parts)
    /\ results' = <<>>
    /\ bp_idx' = 1
    /\ bp_pc' = "for"
    /\ UNCHANGED <<bp_stock_sizes, current_x, current_y, max_height_in_row, bp_remaining,
                   stock_used>>
    /\ UNCHANGED notBP

\* lines 99-105: the next stock size
ForStock ==
    /\ bp_pc = "for"
    /\ bp_idx <= Len(bp_stock_sizes)
    /\ current_x' = 0
    /\ current_y' = 0
    /\ max_height_in_row' = 0
    /\ bp_remaining' = bp_parts
    /\ stock_used' = 0
    /\ bp_pc' = "while"
    /\ UNCHANGED <<bp_parts, bp_stock_sizes, bp_idx, results>>
    /\ UNCHANGED notBP

\* line 107: the condition of the while loop
WhileCondition ==
    bp_remaining # <<>> /\ stock_used < bp_stock_sizes[bp_idx].quantity

\* lines 108-137: one pass of the while loop
WhileStep ==
    /\ bp_pc = "while"
    /\ WhileCondition
    /\ LET stock == bp_stock_sizes[bp_idx]
           part == bp_remaining[1]
           new_row == current_x + part.width > stock.width
           row_x == IF new_row THEN 0 ELSE current_x
           row_y == IF new_row THEN current_y + max_height_in_row ELSE current_y
           row_max == IF new_row THEN 0 ELSE max_height_in_row
           new_sheet == row_y + part.height > stock.height
           place_x == IF new_sheet THEN 0 ELSE row_x
           place_y == IF new_sheet THEN 0 ELSE row_y
           place_max == IF new_sheet THEN 0 ELSE row_max
       IN  /\ stock_used' = IF new_sheet THEN stock_used + 1 ELSE stock_used
           /\ IF new_sheet /\ stock_used' >= stock.quantity
              THEN \* break
                   /\ current_x' = place_x
                   /\ current_y' = place_y
                   /\ max_height_in_row' = place_max
                   /\ bp_idx' = bp_idx + 1
                   /\ bp_pc' = "for"
                   /\ UNCHANGED <<results, bp_remaining>>
              ELSE /\ results' = Append(results,
                          [part_id |-> part.id, x |-> place_x, y |-> place_y,
                           width |-> part.width, height |-> part.height,
                           stock_name |-> stock.name])
                   /\ current_x' = place_x + part.width
                   /\ current_y' = place_y
                   /\ max_height_in_row' = Max(place_max, part.height)
                   /\ bp_remaining' = Tail(bp_remaining)
                   /\ UNCHANGED <<bp_idx, bp_pc>>
    /\ UNCHANGED <<bp_parts, bp_stock_sizes>>
    /\ UNCHANGED notBP

\* line 107: the while loop ends
WhileExit ==
    /\ bp_pc = "while"
    /\ ~WhileCondition
    /\ bp_idx' = bp_idx + 1
    /\ bp_pc' = "for"
    /\ UNCHANGED <<bp_parts, bp_stock_sizes, current_x, current_y, max_height_in_row,
                   bp_remaining, stock_used, results>>
    /\ UNCHANGED notBP

\* line 139: return self.results
ReturnResults ==
    /\ bp_pc = "for"
    /\ bp_idx > Len(bp_stock_sizes)
    /\ bp_pc' = "returned"
    /\ UNCHANGED <<bp_parts, bp_stock_sizes, bp_idx, current_x, current_y,
                   max_height_in_row, bp_remaining, stock_used, results>>
    /\ UNCHANGED notBP

NextBP == BPLoadRow \/ CallPack \/ ForStock \/ WhileStep \/ WhileExit \/ ReturnResults

SpecBP == InitBP /\ [][NextBP]_vars

\* C16: no part id appears twice in the results of BinPacker.pack.
C16_OneResultPerPart ==
    \A i, j \in 1..Len(results) : i # j => results[i].part_id # results[j].part_id

\* the stock size a result names
StockNamed(stock_name) ==
    CHOOSE s \in { bp_stock_sizes[k] : k \in 1..Len(bp_stock_sizes) } : s.name = stock_name

\* C17: every PackingResult lies inside the stock sheet it names.
C17_ResultInsideStock ==
    \A i \in 1..Len(results) :
        /\ results[i].x >= 0
        /\ results[i].y >= 0
        /\ results[i].x + results[i].width <= StockNamed(results[i].stock_name).width
        /\ results[i].y + results[i].height <= StockNamed(results[i].stock_name).height

(***************************************************************************)
(* 2D_Bin_Packeging.py: group_sheets_by_layout.                            *)
(***************************************************************************)
GRMaxLength == 2       \* part length ranges over 1..GRMaxLength
GRMaxHeight == 1       \* part height ranges over 1..GRMaxHeight
GRMaxSheets == 3       \* sheets of the layout handed to the function
GRMaxPlacements == 2   \* placements per sheet

\* the elements of a layout signature: (length, height, rotated) per placement
SignatureItem(p) == <<p.part.length, p.part.height, p.rotated>>

\* lines 104-105: frozenset(... for p in sheet['placements'])
layout_signature(sh) ==
    { SignatureItem(sh.placements[k]) : k \in 1..Len(sh.placements) }

\* the position in sheet_groups of the entry with this key, 0 when absent
RECURSIVE GroupOf(_, _, _)
GroupOf(groups, signature, k) ==
    IF k > Len(groups) THEN 0
    ELSE IF groups[k].signature = signature THEN k
         ELSE GroupOf(groups, signature, k + 1)

InitGR ==
    /\ IdleGA
    /\ IdleCL
    /\ IdleGC
    /\ IdleHY
    /\ IdleBP
    /\ optimized_layout = <<>>
    /\ gr_idx = 0
    /\ sheet_groups = <<>>
    /\ gr_pc = "load"

notGR == <<gaVars, genVars, clVars, gcVars, hyVars, bpVars>>

\* line 89: one more sheet in the layout
GRAddSheet ==
    /\ gr_pc = "load"
    /\ Len(optimized_layout) < GRMaxSheets
    /\ optimized_layout' = Append(optimized_layout, [size |-> <<4, 4>>, placements |-> <<>>])
    /\ UNCHANGED <<gr_idx, sheet_groups, gr_pc>>
    /\ UNCHANGED notGR

\* line 94: one more placement on the last sheet of the layout
GRAddPlacement ==
    /\ gr_pc = "load"
    /\ optimized_layout # <<>>
    /\ Len(optimized_layout[Len(optimized_layout)].placements) < GRMaxPlacements
    /\ \E l \in 1..GRMaxLength, h \in 1..GRMaxHeight, r \in BOOLEAN :
          optimized_layout' =
              [optimized_layout EXCEPT ![Len(optimized_layout)].placements =
                  Append(@, [part |-> [location |-> "a", length |-> l, height |-> h],
                             position |-> <<0, 0>>, rotated |-> r])]
    /\ UNCHANGED <<gr_idx, sheet_groups, gr_pc>>
    /\ UNCHANGED notGR

\* lines 99-101
CallGroup ==
    /\ gr_pc = "load"
    /\ sheet_groups' = <<>>
    /\ gr_idx' = 1
    /\ gr_pc' = "for"
    /\ UNCHANGED optimized_layout
    /\ UNCHANGED notGR

\* lines 103-110: the next sheet of the layout
GroupSheet ==
    /\ gr_pc = "for"
    /\ gr_idx <= Len(optimized_layout)
    /\ LET sh == optimized_layout[gr_idx]
           g == GroupOf(sheet_groups, layout_signature(sh), 1)
       IN  sheet_groups' =
               IF g # 0
               THEN [sheet_groups EXCEPT ![g].count = @ + 1]
               ELSE Append(sheet_groups,
                           [signature |-> layout_signature(sh), sheet |-> sh, count |-> 1])
    /\ gr_idx' = gr_idx + 1
    /\ UNCHANGED <<optimized_layout, gr_pc>>
    /\ UNCHANGED notGR

\* line 112: return [(group['sheet'], group['count']) ...]
ReturnGroups ==
    /\ gr_pc = "for"
    /\ gr_idx > Len(optimized_layout)
    /\ gr_pc' = "returned"
    /\ UNCHANGED <<optimized_layout, gr_idx, sheet_groups>>
    /\ UNCHANGED notGR

NextGR == GRAddSheet \/ GRAddPlacement \/ CallGroup \/ GroupSheet \/ ReturnGroups

SpecGR == InitGR /\ [][NextGR]_vars

\* the multiset of (length, height, rotated) over the placements of a sheet:
\* each item with the number of placements that have it
PlacementMultiset(sh) ==
    [t \in layout_signature(sh) |->
        Cardinality({ k \in 1..Len(sh.placements) : SignatureItem(sh.placements[k]) = t })]

\* C18: when group_sheets_by_layout returns, two sheets are in the same group
\* exactly when their multisets of (length, height, rotated) are equal, and the
\* count of a group is the number of sheets that have its multiset.
C18_GroupsAreMultisets ==
    gr_pc = "returned" =>
        /\ \A i, j \in 1..Len(optimized_layout) :
              (GroupOf(sheet_groups, layout_signature(optimized_layout[i]), 1)
                   = GroupOf(sheet_groups, layout_signature(optimized_layout[j]), 1))
              <=> (PlacementMultiset(optimized_layout[i])
                       = PlacementMultiset(optimized_layout[j]))
        /\ \A g \in 1..Len(sheet_groups) :
              sheet_groups[g].count =
                  Cardinality({ i \in 1..Len(optimized_layout) :
                                   PlacementMultiset(optimized_layout[i])
                                       = PlacementMultiset(sheet_groups[g].sheet) })

(***************************************************************************)
(* Properties of the generation loop of genetic_heuristic_optimization.    *)
(***************************************************************************)
\* the placements of the sheets of the elite, next_generation[0]
ElitePlacements ==
    [s \in 1..Len(next_generation[1]) |-> sheet_heap[next_generation[1][s]].placements]

\* C19: while the children of a generation are produced by crossover and
\* mutate, the sheets of the elite keep exactly the placements they had.
C19_EliteUnmodified ==
    [][pc = "children" => ElitePlacements' = ElitePlacements]_vars

\* the best fitness over the layouts of a generation
BestFitnessOf(layouts) ==
    fitness(MaxByFitness(Tail(layouts), Head(layouts), sheet_heap, heap), sheet_heap, heap)

\* C20: the generation loop is left before the last generation only when the
\* best fitness of the new generation is not greater than best_fitness, the
\* best fitness of the generation before it.
C20_StopsOnlyWithoutImprovement ==
    [][(pc = "children" /\ pc' = "return_best" /\ generation + 1 < generations)
          => ~FitGreater(BestFitnessOf(next_generation), best_fitness)]_vars

(***************************************************************************)
(* Properties of find_best_fit and Sheet.add_part.                         *)
(***************************************************************************)
\* the (region, orientation) pairs that admit the part: region k of the
\* list, orientation r
FittingPairs(spaces, part) ==
    { pr \in (1..Len(spaces)) \X BOOLEAN :
        LET pl == IF pr[2] THEN part.height ELSE part.length
            ph == IF pr[2] THEN part.length ELSE part.height
        IN  pl <= spaces[pr[1]][3] /\ ph <= spaces[pr[1]][4] }

\* region width * region height - part area
Leftover(spaces, part, pr) ==
    spaces[pr[1]][3] * spaces[pr[1]][4] - part.length * part.height

\* the pairs find_best_fit's answer can stand for: same corner, same orientation
PairsOfAnswer(spaces, part, fit) ==
    { pr \in FittingPairs(spaces, part) :
        /\ spaces[pr[1]][1] = fit[1]
        /\ spaces[pr[1]][2] = fit[2]
        /\ pr[2] = fit[3] }

BestAreaFit(spaces, part) ==
    LET fit == find_best_fit([remaining_space |-> spaces], part)
        pairs == FittingPairs(spaces, part)
    IN  /\ (fit = <<-1, -1, FALSE>>) <=> (pairs = {})
        /\ pairs # {} =>
              \E pr \in PairsOfAnswer(spaces, part, fit) :
                 \A other \in pairs :
                    Leftover(spaces, part, pr) <= Leftover(spaces, part, other)

\* C21: find_best_fit returns the sentinel (-1, -1, False) exactly when no
\* free region admits the part in either orientation; otherwise it returns
\* the corner of a free region and an orientation in which the part fits
\* that region, and the leftover area of that pair is minimal over all
\* fitting (region, orientation) pairs.  Stated of every call the engine
\* makes (line 139).
C21_BestAreaFit ==
    (pc = "for" /\ iter > 0) => BestAreaFit(sheet.remaining_space, heap[snapshot[idx]])

\* a call on a sheet with several free regions, where the pair of least
\* leftover is not the first fitting pair of the scan; a sheet was closed
\* before, so an earlier call found no fit for a part that was left over
C21_Witness ==
    /\ pc = "for"
    /\ iter > 0
    /\ Len(sheets) >= 1
    /\ Len(sheet.remaining_space) >= 2
    /\ LET spaces == sheet.remaining_space
           part == heap[snapshot[idx]]
           fit == find_best_fit(sheet, part)
       IN  /\ fit # <<-1, -1, FALSE>>
           /\ \E pr \in FittingPairs(spaces, part) :
                 \A win \in PairsOfAnswer(spaces, part, fit) :
                    /\ pr[1] < win[1]
                    /\ Leftover(spaces, part, pr) > Leftover(spaces, part, win)

Perimeter(space) == 2 * (space[3] + space[4])

\* the fitting pairs of least leftover area
MinLeftoverPairs(spaces, part) ==
    { pr \in FittingPairs(spaces, part) :
        \A other \in FittingPairs(spaces, part) :
           Leftover(spaces, part, pr) <= Leftover(spaces, part, other) }

\* pair a is preferred to pair b: non-rotated first, then the smaller
\* perimeter, then the earlier region
Preferred(spaces, a, b) ==
    IF a[2] # b[2] THEN ~a[2]
    ELSE IF Perimeter(spaces[a[1]]) # Perimeter(spaces[b[1]])
         THEN Perimeter(spaces[a[1]]) < Perimeter(spaces[b[1]])
         ELSE a[1] <= b[1]

TieBreak(spaces, part) ==
    LET fit == find_best_fit([remaining_space |-> spaces], part)
        ties == MinLeftoverPairs(spaces, part)
    IN  \A pr \in ties :
           (\A other \in ties : Preferred(spaces, pr, other))
              => fit = <<spaces[pr[1]][1], spaces[pr[1]][2], pr[2]>>

\* C22: among fitting (region, orientation) pairs with equal minimal leftover
\* area, find_best_fit prefers the non-rotated orientation, then the region
\* with the smaller perimeter, then the first region in remaining_space order.
C22_TieBreak ==
    (pc = "for" /\ iter > 0) => TieBreak(sheet.remaining_space, heap[snapshot[idx]])

\* two rectangles have no common point, border included
NoCommonPoint(a, b) ==
    \/ a[1] + a[3] < b[1]
    \/ b[1] + b[3] < a[1]
    \/ a[2] + a[4] < b[2]
    \/ b[2] + b[4] < a[2]

InSeq(e, s) == \E k \in 1..Len(s) : s[k] = e

\* the step is an add_part call on the sheet being filled
AddPartStep == pc = "for" /\ Len(sheet'.placements) = Len(sheet.placements) + 1

\* C23: Sheet.add_part leaves unchanged every free region of remaining_space
\* whose rectangle does not intersect the placed rectangle (here: has no
\* point in common with it, not even on the border); only regions
\* intersecting the placed rectangle are replaced by remainders.
C23_DisjointRegionsKept ==
    [][AddPartStep =>
          LET placed == PlacedRect(sheet'.placements[Len(sheet'.placements)])
          IN  \A k \in 1..Len(sheet.remaining_space) :
                 NoCommonPoint(sheet.remaining_space[k], placed)
                    => InSeq(sheet.remaining_space[k], sheet'.remaining_space)]_vars

\* C24: after any sequence of add_part calls made at positions returned by
\* find_best_fit, no free region of remaining_space has a common interior
\* point with a rectangle already placed on that sheet.
C24_FreeRegionsUnused ==
    \A sh \in AllSheets :
       \A k \in 1..Len(sh.remaining_space) :
          \A i \in 1..Len(sh.placements) :
             ~Overlap(sh.remaining_space[k], PlacedRect(sh.placements[i]))

\* the part, in the orientation of the rotated flag of line 50, fits the space
FlagFits(part, space) ==
    LET rotated == RotatedFlag(part, space)
        w == IF rotated THEN part.height ELSE part.length
        h == IF rotated THEN part.length ELSE part.height
    IN  w <= space[3] /\ h <= space[4]

\* every placement the trial loop of lines 46-66 makes through the can_fit
\* branch fits the space it is made into
RECURSIVE TrialFlagFits(_, _, _, _)
TrialFlagFits(trial, list, stock, g) ==
    IF list = <<>> THEN TRUE
    ELSE LET i == FirstFit(Head(list), trial.available_space, 1)
         IN  /\ i # 0 => FlagFits(Head(list), trial.available_space[i])
             /\ TrialFlagFits(PlaceOne(trial, Head(list), stock, g), Tail(list), stock, g)

\* C25: whenever calculate_layout places a part into a free space through
\* the can_fit branch, the part in the orientation given by the computed
\* rotated flag fits that space: effective width <= space width and
\* effective height <= space height.
C25_FlagOrientationFits ==
    (cl_pc = "stocks" /\ stock_idx <= Len(cl_stock_sizes)) =>
        LET stock == cl_stock_sizes[stock_idx]
        IN  TrialFlagFits([placements |-> <<>>,
                           available_space |-> << <<0, 0, stock.length, stock.width>> >>],
                          remaining_parts, stock, gap)

(***************************************************************************)
(* Further properties of GlassCuttingOptimizer.optimize.                   *)
(***************************************************************************)
\* the rectangle of a placement of optimize: <<x, y, length, height>>
GCRect(pl) == <<pl.x, pl.y, pl.length, pl.height>>

\* C26: any two placements with the same sheet_number are separated by at
\* least cut_width horizontally or vertically, and every placement satisfies
\* x + length + cut_width <= stock.length and
\* y + height + cut_width <= stock.width for the stock of its sheet.
C26_SeparatedInsideStock ==
    /\ \A i, j \in 1..Len(all_placements) :
          (i < j /\ all_placements[i].sheet_number = all_placements[j].sheet_number)
             => Apart(GCRect(all_placements[i]), GCRect(all_placements[j]), cut_width)
    /\ \A i \in 1..Len(all_placements) :
          LET pl == all_placements[i]
          IN  /\ pl.x + pl.length + cut_width <= pl.sheet_size[1]
              /\ pl.y + pl.height + cut_width <= pl.sheet_size[2]

\* with a positive cut width, a returned sheet holds two panels in its first
\* row and one in a second row
C26_Witness ==
    /\ gc_pc = "returned"
    /\ cut_width > 0
    /\ \E i, j, k \in 1..Len(all_placements) :
          /\ all_placements[i].sheet_number = all_placements[j].sheet_number
          /\ all_placements[j].sheet_number = all_placements[k].sheet_number
          /\ all_placements[i].y = 0
          /\ all_placements[j].y = 0
          /\ all_placements[i].x < all_placements[j].x
          /\ all_placements[k].y > 0

\* the sheet_number values among the placements
SheetNumbers(placements) == { placements[i].sheet_number : i \in 1..Len(placements) }

\* the size of the sheet of number n
SheetSizeOf(placements, n) ==
    placements[CHOOSE i \in 1..Len(placements) : placements[i].sheet_number = n].sheet_size

RECURSIVE SumOver(_, _, _)
SumOver(set, placements, acc) ==
    IF set = {} THEN acc
    ELSE LET n == CHOOSE m \in set : TRUE
             size == SheetSizeOf(placements, n)
         IN  SumOver(set \ {n}, placements, acc + size[1] * size[2])

\* the sum of the counts in total_sheets
RECURSIVE SumCounts(_, _)
SumCounts(counts, keys) ==
    IF keys = {} THEN 0
    ELSE LET k == CHOOSE key \in keys : TRUE
         IN  counts[k] + SumCounts(counts, keys \ {k})

\* C27: every sheet that optimize counts as consumed received at least one
\* placement: in the result, the sum of the total_sheets counts equals the
\* number of distinct sheet_number values among the placements, and
\* total_sheet_area is the summed area of exactly those sheets.
C27_CountedSheetsHoldPlacements ==
    gc_pc = "returned" =>
        LET res == gc_result[1]
            numbers == SheetNumbers(res.placements)
        IN  /\ SumCounts(res.total_sheets, DOMAIN res.total_sheets) = Cardinality(numbers)
            /\ gc_total_sheet_area = SumOver(numbers, res.placements, 0)

(***************************************************************************)
(* Further properties of optimize_cutting_heuristic.                       *)
(***************************************************************************)
\* part p comes before part q in the claimed order: descending area, then
\* descending height, then input order (heap indices are in input order)
ClaimedBefore(p, q) ==
    IF Area(heap[p]) # Area(heap[q]) THEN Area(heap[p]) > Area(heap[q])
    ELSE IF heap[p].height # heap[q].height THEN heap[p].height > heap[q].height
         ELSE p < q

\* C28: optimize_cutting_heuristic considers the parts in order of
\* descending area (length * height), with ties broken by descending height
\* and then by input order.  Stated of the list after line 133, in the first
\* call on the loaded list.
C28_SortOrder ==
    (Len(returned) = 0 /\ pc \in {"while", "for"}) =>
        \A i, j \in 1..Len(parts) : i < j => ClaimedBefore(parts[i], parts[j])

(***************************************************************************)
(* Further properties of calculate_layout.                                 *)
(***************************************************************************)
\* the number of elements of a list equal to the part
RECURSIVE CountEqual(_, _)
CountEqual(list, part) ==
    IF list = <<>> THEN 0
    ELSE (IF Head(list) = part THEN 1 ELSE 0) + CountEqual(Tail(list), part)

\* the parts placed on the sheets of a layout, in order
RECURSIVE PlacedParts(_)
PlacedParts(layout) ==
    IF layout = <<>> THEN <<>>
    ELSE [i \in 1..Len(Head(layout).placements) |-> Head(layout).placements[i].part]
         \o PlacedParts(Tail(layout))

CLConserved ==
    \A k \in 1..Len(cl_parts) :
        CountEqual(PlacedParts(cl_sheets), cl_parts[k]) = CountEqual(cl_parts, cl_parts[k])

\* C29: calculate_layout returns for every non-empty part list and non-empty
\* stock list, and in its result the number of placements of each
\* (location, length, height) equals the number of such instances in the
\* input.
C29_ReturnsAndConserves ==
    /\ (cl_pc = "while") ~> (cl_pc = "done")
    /\ [](cl_pc = "done" => (CLConserved /\ Len(PlacedParts(cl_sheets)) = Len(cl_parts)))

\* a layout of several sheets was returned for an input that holds a part
\* twice and a part of another shape
C29_Witness ==
    /\ cl_pc = "done"
    /\ Len(cl_sheets) >= 2
    /\ \E i, j, k \in 1..Len(cl_parts) :
          i # j /\ cl_parts[i] = cl_parts[j] /\ cl_parts[k] # cl_parts[i]

(***************************************************************************)
(* A caller whose part list meets the engine's expectation: every part     *)
(* fits an empty sheet of stock_sizes[0] in some orientation.              *)
(***************************************************************************)
FitMaxDim == 2      \* part length and height range over 1..FitMaxDim
FitMaxDemand == 3   \* total required quantity over the part list

FitStockLists == { << <<2, 3>> >>, << <<3, 1>>, <<4, 4>> >> }

InitFit == InitWith(FitStockLists)

\* load_glass_data: one more row, of a part that fits the first stock size
LoadFitRow ==
    /\ pc = "load"
    /\ \E l \in 1..FitMaxDim, h \in 1..FitMaxDim,
          q \in 1..(FitMaxDemand - Demand(input)) :
          LET part == [location |-> "a", length |-> l, height |-> h, quantity |-> q]
              empty == <<0, 0, stock_sizes[1][1], stock_sizes[1][2]>>
          IN  /\ Fits(l, h, empty) \/ Fits(h, l, empty)
              /\ input' = Append(input, part)
              /\ heap' = Append(heap, part)
              /\ caller_parts' = Append(caller_parts, Len(heap) + 1)
    /\ UNCHANGED <<stock_sizes, parts, snapshot, idx, iter, sheet, sheets, sheet_heap,
                   returned, copied, pc>>
    /\ UNCHANGED genVars
    /\ UNCHANGED <<clVars, otherVars>>

NextFit == LoadFitRow \/ CallHeuristic \/ Heuristic

SpecFit == InitFit /\ [][NextFit]_vars

FairSpecFit == SpecFit /\ WF_vars(NextFit)

\* C30: if every part has quantity >= 1 and fits an empty sheet of
\* stock_sizes[0] in at least one orientation, optimize_cutting_heuristic
\* terminates: each iteration of its outer loop places at least one instance
\* on the new sheet, so every returned sheet holds at least one placement and
\* the number of sheets is at most the total demand.  Stated of the first
\* call on the loaded list, whose quantities are all >= 1.
C30_TerminatesWhenAllFit ==
    /\ (pc = "enter" /\ Len(returned) = 0 /\ AllFit) ~> (pc = "returned")
    /\ [][(Len(returned) = 0 /\ AllFit /\ pc = "for" /\ pc' = "while")
             => sheet.placements # <<>>]_vars
    /\ []((Len(returned) >= 1 /\ AllFit) =>
             /\ \A s \in 1..Len(returned[1]) :
                   sheet_heap[returned[1][s]].placements # <<>>
             /\ Len(returned[1]) <= Demand(input))

\* the first call returned several sheets for parts that all fit an empty
\* sheet, one of them rotated only, one required twice or more
C30_Witness ==
    /\ Len(returned) >= 1
    /\ AllFit
    /\ Len(returned[1]) >= 2
    /\ \E p \in 1..Len(input) : input[p].quantity >= 2
    /\ \E p \in 1..Len(input) :
          ~Fits(input[p].length, input[p].height,
                <<0, 0, stock_sizes[1][1], stock_sizes[1][2]>>)

=============================================================================
